---- MODULE Spec2Model ----
(***************************************************************************)
(* A model of r-proc's Processor: ProcessAndServe / Serve (the dispatch    *)
(* loop, the per-file workers, the matcher and write), Shutdown, and the   *)
(* caller's signal protocol (application.serve).                           *)
(*                                                                         *)
(* Strings are sequences of one-character strings over Alphabet.  The      *)
(* semaphore (golang.org/x/sync/semaphore) is modelled by its count of     *)
(* held slots.  The WaitGroup (sync) is modelled by its counter and its    *)
(* waiter count, with the panics of Add and Wait on reuse, since Serve     *)
(* adds to p.wg while Shutdown's goroutine may be waiting on it.           *)
(*                                                                         *)
(* Steps of a goroutine that touch only its own state are taken together   *)
(* with the next access to shared state (the flag, the semaphore, the      *)
(* WaitGroup, the output directory).  Environment faults are drawn         *)
(* nondeterministically, at most MaxFaults of them in one run.             *)
(*                                                                         *)
(* Spec is the whole program on a small directory; SpecMatch is one worker *)
(* on one line, for every match mode, candidate list and line; SpecLive is *)
(* Spec under the fairness of the Go scheduler, for the liveness claims.   *)
(***************************************************************************)
EXTENDS Naturals, Integers, Sequences, FiniteSets, TLC

\* ---------------------------------------------------------------- bounds

\* Input files in the directory of Spec.
NumFiles == 2
\* Environment faults (stat/open/decoder/decode/output failures) injected in
\* one run.
MaxFaults == 1
\* Longest field value in SpecMatch; candidate values are one shorter.
MaxStrLen == 2
\* Longest candidate list in SpecMatch.
MaxValues == 2

\* The thread counts (config.Threads, validated gte=1) Spec starts from:
\* serial and concurrent dispatch.
ThreadChoices == {1, 2}

\* ---------------------------------------------------------------- strings

Alphabet == {"a", "A", "."}

Str(n) == UNION {[1..k -> Alphabet] : k \in 0..n}

\* strings.ToLower
ToLower(s) == [i \in 1..Len(s) |-> IF s[i] = "A" THEN "a" ELSE s[i]]

\* strings.EqualFold (simple case folding; on this alphabet A ~ a)
EqualFold(s, t) == ToLower(s) = ToLower(t)

\* strings.Contains
Contains(s, sub) ==
    \E i \in 0..Len(s) :
        /\ i + Len(sub) <= Len(s)
        /\ SubSeq(s, i + 1, i + Len(sub)) = sub

\* regexp.MustCompile on the pattern language of the model: "." is the
\* any-character class, every other character a literal.
Compile(value) ==
    [i \in 1..Len(value) |->
        IF value[i] = "." THEN [kind |-> "any", c |-> "."]
                          ELSE [kind |-> "lit", c |-> value[i]]]

\* (*Regexp).MatchString: unanchored search.
MatchString(re, s) ==
    \E i \in 0..Len(s) :
        /\ i + Len(re) <= Len(s)
        /\ \A j \in 1..Len(re) : re[j].kind = "any" \/ re[j].c = s[i + j]

\* ---------------------------------------------------------------- lines

\* A line of the decoded stream: the empty line (zero bytes) or a JSON
\* object, given by the fields it holds.
EmptyLine == [kind |-> "empty", fields |-> <<>>]
Obj(field, val) == [kind |-> "obj", fields |-> <<[key |-> field, val |-> val]>>]

LineLen(line) == IF line.kind = "empty" THEN 0 ELSE 2 + Len(line.fields)

\* jsoniter.Get(line, field).ToString(): the string value of the field, ""
\* when the field is absent.
GetField(line, field) ==
    IF \E i \in 1..Len(line.fields) : line.fields[i].key = field
    THEN LET i == CHOOSE i \in 1..Len(line.fields) : line.fields[i].key = field
         IN line.fields[i].val
    ELSE <<>>

\* ---------------------------------------------------------------- matcher

Modes == {"exact", "partial", "regex"}

\* The switch on p.MatchMode for candidate i.
Matched(mode, values, regex, i, fieldVal) ==
    CASE mode = "regex"   -> MatchString(regex[i], fieldVal)
      [] mode = "partial" -> Contains(ToLower(fieldVal), ToLower(values[i]))
      [] mode = "exact"   -> EqualFold(fieldVal, values[i])
      [] OTHER            -> FALSE

\* The candidate loop continued past a match (no break).
RECURSIVE CandLoopNoBreak(_, _, _, _, _)
CandLoopNoBreak(mode, values, regex, i, fieldVal) ==
    IF i > Len(values) THEN [evals |-> {}, writes |-> <<>>]
    ELSE LET rest == CandLoopNoBreak(mode, values, regex, i + 1, fieldVal)
         IN [evals  |-> {i} \cup rest.evals,
             writes |-> IF Matched(mode, values, regex, i, fieldVal)
                        THEN <<i>> \o rest.writes ELSE rest.writes]

\* for i, val := range p.Values { ...; if matched { p.write(...); break } }
\* from candidate i on: the candidates evaluated and the writes called.
RECURSIVE CandLoop(_, _, _, _, _)
CandLoop(mode, values, regex, i, fieldVal) ==
    IF i > Len(values) THEN [evals |-> {}, writes |-> <<>>]
    ELSE IF Matched(mode, values, regex, i, fieldVal)
         THEN [evals |-> {i}, writes |-> <<i>>]
         ELSE LET rest == CandLoop(mode, values, regex, i + 1, fieldVal)
              IN [evals |-> {i} \cup rest.evals, writes |-> rest.writes]

\* The loop body without the two `continue` guards.
LineBodyNoGuard(mode, values, regex, field, line) ==
    CandLoop(mode, values, regex, 1, GetField(line, field))

\* The body of the scanner loop after the shutdown check, for one line.
LineBody(mode, values, regex, field, line) ==
    IF LineLen(line) = 0 THEN [evals |-> {}, writes |-> <<>>]
    ELSE LET fieldVal == GetField(line, field)
         IN IF fieldVal = <<>> THEN [evals |-> {}, writes |-> <<>>]
            ELSE CandLoop(mode, values, regex, 1, fieldVal)

\* ---------------------------------------------------------------- files

\* An input path: directory, base name without extension, extension.
Path(d, name, ext) == [dir |-> d, name |-> name, ext |-> ext]

\* strings.TrimSuffix(filepath.Base(inputPath), filepath.Ext(inputPath))
Stem(path) == path.name

\* filepath.Join(p.Output, fmt.Sprintf("%s_%s.ndjson", stem, value))
OutFileName(path, value) == <<Stem(path), value>>

\* The configured field of Spec and SpecMatch.
TheField == "subreddit"

LinePool ==
    << Obj(TheField, <<"A", "a">>), Obj(TheField, <<"a", "A">>),
       Obj(TheField, <<"a">>), EmptyLine,
       Obj(TheField, <<".">>), Obj("title", <<"a", "a">>) >>

\* File i holds two consecutive lines of the pool, starting at line i.
FileLines(i) ==
    << LinePool[((i - 1) % Len(LinePool)) + 1], LinePool[(i % Len(LinePool)) + 1] >>

\* Files 1 and 2 share a base name (in different directories), so their
\* workers append to the same output files.
FilePath(i) ==
    Path(IF i % 2 = 1 THEN "d1" ELSE "d2", IF i <= 2 THEN "RS" ELSE "RC", ".zst")

FullDir == [i \in 1..NumFiles |-> [path |-> FilePath(i), lines |-> FileLines(i)]]

\* A directory holding no eligible file.
OtherDir == << [path |-> Path("d1", "notes", ".txt"), lines |-> <<>>] >>

SpecValues == << <<"a", "a">>, <<"a">> >>

\* The filepath.Walk callback: regular files with extension .zst whose name
\* matches the file filter (".*" in the model).
Eligible(file) == file.path.ext = ".zst"

RECURSIVE WalkFrom(_, _)
WalkFrom(d, i) ==
    IF i > Len(d) THEN <<>>
    ELSE (IF Eligible(d[i]) THEN <<i>> ELSE <<>>) \o WalkFrom(d, i + 1)

\* ---------------------------------------------------------------- state

VARIABLES
    Threads,      \* Processor.Threads
    MatchMode,    \* Processor.MatchMode
    Values,       \* Processor.Values
    ValuesRegex,  \* Processor.ValuesRegex
    dir,          \* the input directory: a sequence of [path, lines]
    inShutdown,   \* Processor.inShutdown
    sem,          \* slots held in Serve's semaphore
    wg,           \* Processor.wg: [v |-> counter, w |-> waiters]
    pc,           \* position of the main goroutine (serve/ProcessAndServe/Serve)
    f,            \* Serve's file list: indices into dir
    idx,          \* Serve's loop position in f
    result,       \* ProcessAndServe's return value
    serveShut,    \* whether the flag was true when Serve was entered
    started,      \* the files handed to p.wg.Go, in order
    pas,          \* ProcessAndServe's walk: the files the callback appended,
                  \* whether Walk returned an error, whether the warning
                  \* "no input files found" was logged
    wpc,          \* wpc[i]: position of the worker of file i
    pos,          \* pos[i]: lines of file i that passed the poll of the flag
    pending,      \* pending[i]: candidates whose write call is due for the line
    wstatus,      \* wstatus[i]: how worker i ended
    decodeErr,    \* workers whose scanner stopped on a decode error
    openFiles,    \* input files open (os.Open done, Close not yet)
    out,          \* the output directory: the appends made, in order
    evaluated,    \* lines for which a candidate was evaluated: <<file, line>>
    startedShut,  \* workers started (wg.Go) when the flag was already true
    warned,       \* lines whose write was logged as failed: <<file, line>>
    faults,       \* environment faults injected so far
    sdpc,         \* position of the Shutdown call (signal goroutine)
    waiterpc,     \* position of Shutdown's goroutine running p.wg.Wait()
    sdResult,     \* Shutdown's return value
    proc,         \* the process: running, crashed (unrecovered panic), exited
    exitResult    \* what serve returned

config == <<Threads, MatchMode, Values, dir>>
mainv  == <<pc, f, idx, result, ValuesRegex, serveShut, started, pas>>
workv  == <<wpc, pos, pending, wstatus, decodeErr, openFiles, out, evaluated, startedShut,
           warned, faults>>
shutv  == <<sdpc, waiterpc, sdResult>>
vars   == <<config, inShutdown, sem, wg, mainv, workv, shutv, proc, exitResult>>

Workers == 1..Len(dir)

\* Worker positions between the start of the goroutine's function and the
\* release of its slot.
ActivePcs == {"start", "scan", "write", "release"}

Active(i) == wpc[i] \in ActivePcs

Running == proc = "running"

\* p.shuttingDown()
shuttingDown == inShutdown

\* The state after construction, with `spent` of the environment's fault
\* budget already used up.
InitFrom(d, n, mode, values, spent) ==
    /\ Threads = n
    /\ MatchMode = mode
    /\ Values = values
    /\ ValuesRegex = <<>>
    /\ dir = d
    /\ inShutdown = FALSE
    /\ sem = 0
    /\ wg = [v |-> 0, w |-> 0]
    /\ pc = "entry"
    /\ f = <<>>
    /\ idx = 1
    /\ result = "none"
    /\ serveShut = FALSE
    /\ started = <<>>
    /\ pas = [walked |-> FALSE, files |-> <<>>, err |-> FALSE, warn |-> FALSE]
    /\ wpc = [i \in 1..Len(d) |-> "idle"]
    /\ pos = [i \in 1..Len(d) |-> 0]
    /\ pending = [i \in 1..Len(d) |-> <<>>]
    /\ wstatus = [i \in 1..Len(d) |-> "none"]
    /\ decodeErr = {}
    /\ openFiles = {}
    /\ out = <<>>
    /\ evaluated = {}
    /\ startedShut = {}
    /\ warned = {}
    /\ faults = spent
    /\ sdpc = "idle"
    /\ waiterpc = "none"
    /\ sdResult = "none"
    /\ proc = "running"
    /\ exitResult = "none"

InitWith(d, n, mode, values) == InitFrom(d, n, mode, values, 0)

Init ==
    \E n \in ThreadChoices, d \in {FullDir, OtherDir} :
        InitWith(d, n, "partial", SpecValues)

\* ---------------------------------------------------------------- main

\* An unrecovered panic ends the process.
Crash == proc' = "crashed"

\* ProcessAndServe: the entry check and the regex compilation.
PASEntry ==
    /\ Running /\ pc = "entry"
    /\ IF shuttingDown
       THEN /\ result' = "closed"
            /\ pc' = "ret"
            /\ UNCHANGED ValuesRegex
       ELSE /\ pc' = "walk"
            /\ ValuesRegex' = IF MatchMode = "regex"
                              THEN ValuesRegex \o [i \in 1..Len(Values) |-> Compile(Values[i])]
                              ELSE ValuesRegex
            /\ UNCHANGED result
    /\ UNCHANGED <<config, inShutdown, sem, wg, f, idx, workv, shutv, proc, exitResult>>
    /\ UNCHANGED <<serveShut, started, pas>>

\* filepath.Walk that stops with an error after k entries of the directory:
\* the files the callback had appended by then.
WalkUpTo(d, k) == WalkFrom(SubSeq(d, 1, k), 1)

\* A walk error that is not returned.
AfterWalkIgnoreErr(walkErr, found) ==
    IF Len(found) = 0 THEN "nil" ELSE "serve"

\* if err != nil { return err }; if len(f) == 0 { Warn; return nil };
\* return p.Serve(f)
AfterWalk(walkErr, found) ==
    IF walkErr THEN "walkerr"
    ELSE IF Len(found) = 0 THEN "nil" ELSE "serve"

\* ProcessAndServe: filepath.Walk, the two early returns, the call of Serve.
\* A failing walk fails at the root or at an entry after the first k.
PASWalk ==
    /\ Running /\ pc = "walk"
    /\ \E walkErr \in BOOLEAN : \E k \in 0..(Len(dir) - 1) :
        LET found == IF walkErr THEN WalkUpTo(dir, k) ELSE WalkFrom(dir, 1)
            next  == AfterWalk(walkErr, found)
        IN /\ (~walkErr) => k = 0
           /\ pas' = [walked |-> TRUE, files |-> found, err |-> walkErr,
                      warn |-> (next = "nil")]
           /\ IF next = "serve"
              THEN /\ f' = found /\ idx' = 1 /\ pc' = "acquire" /\ UNCHANGED result
              ELSE /\ result' = next /\ pc' = "ret" /\ UNCHANGED <<f, idx>>
    /\ serveShut' = (shuttingDown /\ pc' = "acquire")
    /\ UNCHANGED <<config, inShutdown, sem, wg, ValuesRegex, started, workv, shutv, proc,
                   exitResult>>

\* semaphore.Weighted.Acquire's admission test with an occupancy one too high.
CanAcquireOffByOne(cur, n) == cur <= n

\* semaphore.Weighted.Acquire(ctx, 1) succeeds when a slot is free; ctx is
\* never cancelled, so it blocks otherwise and never returns an error.
CanAcquire(cur, n) == cur + 1 <= n

ServeAcquire ==
    /\ Running /\ pc = "acquire"
    /\ CanAcquire(sem, Threads)
    /\ sem' = sem + 1
    /\ pc' = "go"
    /\ UNCHANGED <<config, inShutdown, wg, f, idx, result, ValuesRegex, workv, shutv, proc, exitResult>>
    /\ UNCHANGED <<serveShut, started, pas>>

\* A loop that takes the same file again.
SameFile(i) == i

\* for _, file := range f: the next position in the list.
NextFile(i) == i + 1

\* p.wg.Go: Add(1), then the goroutine starts.  Add panics (in Serve's
\* goroutine) when it lifts the counter from zero while a waiter is registered.
ServeGo ==
    /\ Running /\ pc = "go"
    /\ IF wg.w # 0 /\ wg.v + 1 = 1
       THEN /\ Crash
            /\ UNCHANGED <<wg, pc, idx, wpc, startedShut, started>>
       ELSE /\ wg' = [wg EXCEPT !.v = @ + 1]
            /\ wpc' = [wpc EXCEPT ![f[idx]] = "start"]
            /\ started' = Append(started, f[idx])
            /\ startedShut' = IF inShutdown THEN startedShut \cup {f[idx]} ELSE startedShut
            /\ idx' = NextFile(idx)
            /\ pc' = IF NextFile(idx) > Len(f) THEN "wait" ELSE "acquire"
            /\ UNCHANGED proc
    /\ UNCHANGED <<config, inShutdown, sem, f, result, ValuesRegex, pos, pending, wstatus,
                   decodeErr, openFiles, out, evaluated, warned, faults, shutv, exitResult>>
    /\ UNCHANGED <<serveShut, pas>>

\* p.wg.Wait() in Serve: returns at once on a zero counter, else registers.
ServeWait ==
    /\ Running /\ pc = "wait"
    /\ IF wg.v = 0
       THEN pc' = "final" /\ UNCHANGED wg
       ELSE pc' = "wait_blocked" /\ wg' = [wg EXCEPT !.w = @ + 1]
    /\ UNCHANGED <<config, inShutdown, sem, f, idx, result, ValuesRegex, workv, shutv, proc, exitResult>>
    /\ UNCHANGED <<serveShut, started, pas>>

\* The woken Wait checks that the WaitGroup was not reused meanwhile.
ServeWoken ==
    /\ Running /\ pc = "wait_woken"
    /\ IF wg.v # 0 \/ wg.w # 0
       THEN Crash /\ UNCHANGED pc
       ELSE pc' = "final" /\ UNCHANGED proc
    /\ UNCHANGED <<config, inShutdown, sem, wg, f, idx, result, ValuesRegex, workv, shutv, exitResult>>
    /\ UNCHANGED <<serveShut, started, pas>>

\* A Serve that reports success whatever the flag.
FinalNil(shut) == "nil"

\* if p.shuttingDown() { return ErrProcessClosed }; return nil
FinalResult(shut) == IF shut THEN "closed" ELSE "nil"

\* Serve's result.
ServeFinal ==
    /\ Running /\ pc = "final"
    /\ result' = FinalResult(shuttingDown)
    /\ pc' = "ret"
    /\ UNCHANGED <<config, inShutdown, sem, wg, f, idx, ValuesRegex, workv, shutv, proc, exitResult>>
    /\ UNCHANGED <<serveShut, started, pas>>

\* A caller that never recognises the closed error.
NeverClosed(err) == FALSE

\* errors.Is(err, ErrProcessClosed)
IsClosed(err) == err = "closed"

\* application.serve after ProcessAndServe returned: anything but the closed
\* error is returned at once (and the process ends).
CallerReturn ==
    /\ Running /\ pc = "ret"
    /\ IF ~IsClosed(result)
       THEN /\ exitResult' = result /\ pc' = "exit" /\ proc' = "exited"
       ELSE /\ pc' = "recv" /\ UNCHANGED <<exitResult, proc>>
    /\ UNCHANGED <<config, inShutdown, sem, wg, f, idx, result, ValuesRegex, workv, shutv>>
    /\ UNCHANGED <<serveShut, started, pas>>

\* err := <-shutdownErrorChan, with the signal goroutine's send.
CallerRecv ==
    /\ Running /\ pc = "recv" /\ sdpc = "send"
    /\ exitResult' = sdResult
    /\ sdpc' = "sent"
    /\ pc' = "exit"
    /\ proc' = "exited"
    /\ UNCHANGED <<config, inShutdown, sem, wg, f, idx, result, ValuesRegex, workv, waiterpc, sdResult>>
    /\ UNCHANGED <<serveShut, started, pas>>

\* ---------------------------------------------------------------- worker

\* What the worker's own variables leave alone in every worker step.
WorkerFrame == UNCHANGED <<config, inShutdown, mainv, shutv, exitResult, startedShut>>

Quiet == UNCHANGED warned

\* The environment may fail a call while the fault budget lasts.
Outcomes(ok, failures) == IF faults < MaxFaults THEN {ok} \cup failures ELSE {ok}

Fault(isFault) == faults' = IF isFault THEN faults + 1 ELSE faults

\* An input file that is not closed when the worker's function exits.
LeftOpen(open, i) == open

\* defer input.Close(), defer zstdReader.Close(): registered after the
\* deferred release, so they run before it.
DeferredClose(open, i) == open \ {i}

\* panic(err) after the error log: the deferred calls run (input.Close when
\* the file was opened), then the deferred release and recover.
PanicExit(i) ==
    /\ wpc' = [wpc EXCEPT ![i] = "release"]
    /\ wstatus' = [wstatus EXCEPT ![i] = "aborted_error"]
    /\ openFiles' = DeferredClose(openFiles, i)

\* The function returns: zstdReader.Close and input.Close run (deferred).
Return(i, status) ==
    /\ wpc' = [wpc EXCEPT ![i] = "release"]
    /\ wstatus' = [wstatus EXCEPT ![i] = status]
    /\ openFiles' = DeferredClose(openFiles, i)

\* os.Stat(file), os.Open(file), zstd.NewReader(input): each failure is
\* logged and panics.  The three calls touch only the worker's own state and
\* are taken as one step.
WorkerStart(i) ==
    /\ Running /\ wpc[i] = "start"
    /\ \E outcome \in Outcomes("ok", {"statfail", "openfail", "readerfail"}) :
        /\ Fault(outcome # "ok")
        /\ IF outcome = "ok"
           THEN /\ wpc' = [wpc EXCEPT ![i] = "scan"]
                /\ openFiles' = openFiles \cup {i}
                /\ UNCHANGED wstatus
           ELSE PanicExit(i)
    /\ UNCHANGED <<sem, wg, pos, pending, decodeErr, out, evaluated, proc>>
    /\ Quiet
    /\ WorkerFrame

\* The loop body without the poll of the flag.
AfterCheckNoPoll(shut) == "match"

\* if p.shuttingDown() { ...; return }
AfterCheck(shut) == IF shut THEN "return" ELSE "match"

\* One turn of the scanner loop up to the call of p.write: scanner.Scan()
\* (false at the end of the stream or on a decode error; scanner.Err() is
\* never read), the poll of the flag, the two guards, the field extraction
\* and the candidate loop.  Only the poll reads shared state.
WorkerLine(i) ==
    /\ Running /\ wpc[i] = "scan"
    /\ \E decodeFault \in Outcomes(FALSE, {TRUE}) :
        /\ Fault(decodeFault)
        /\ IF decodeFault
           THEN /\ Return(i, "completed")
                /\ decodeErr' = decodeErr \cup {i}
                /\ UNCHANGED <<pos, pending, evaluated>>
           ELSE IF pos[i] >= Len(dir[i].lines)
           THEN /\ Return(i, "completed")
                /\ UNCHANGED <<pos, pending, evaluated, decodeErr>>
           ELSE IF AfterCheck(shuttingDown) = "return"
           THEN /\ Return(i, "aborted_shutdown")
                /\ UNCHANGED <<pos, pending, evaluated, decodeErr>>
           ELSE LET n == pos[i] + 1
                    r == LineBody(MatchMode, Values, ValuesRegex, TheField, dir[i].lines[n])
                IN /\ pos' = [pos EXCEPT ![i] = n]
                   /\ evaluated' = IF r.evals = {} THEN evaluated
                                   ELSE evaluated \cup {<<i, n>>}
                   /\ pending' = [pending EXCEPT ![i] = r.writes]
                   /\ wpc' = [wpc EXCEPT ![i] = IF r.writes = <<>> THEN "scan" ELSE "write"]
                   /\ UNCHANGED <<wstatus, openFiles, decodeErr>>
    /\ UNCHANGED <<sem, wg, out, proc>>
    /\ Quiet
    /\ WorkerFrame

\* A write at the start of the file (no O_APPEND).
WriteAtStart(log, entry) == <<entry>> \o log

\* os.OpenFile(..., O_APPEND|O_CREATE|O_WRONLY) and WriteString(line + "\n").
AppendLine(log, entry) == Append(log, entry)

\* A write whose failure panics like the failures of the input side.
WriteFatal(outcome) == IF outcome = "ok" THEN "continue" ELSE "panic"

\* p.write has no result: after the warning it returns and the caller breaks
\* out of the candidate loop as after a successful write.
AfterWrite(outcome) == "continue"

\* p.write(file, val, string(line)): an open or write failure is logged and
\* the line is dropped.
WorkerWrite(i) ==
    /\ Running /\ wpc[i] = "write"
    /\ \E outcome \in Outcomes("ok", {"openfail", "writefail"}) :
        /\ Fault(outcome # "ok")
        /\ out' = IF outcome = "ok"
                  THEN AppendLine(out, [name |-> OutFileName(dir[i].path, Values[Head(pending[i])]),
                                        file |-> i, line |-> pos[i], cand |-> Head(pending[i]),
                                        sd |-> inShutdown])
                  ELSE out
        /\ warned' = IF outcome = "ok" THEN warned ELSE warned \cup {<<i, pos[i]>>}
        /\ IF AfterWrite(outcome) = "panic"
           THEN /\ PanicExit(i)
                /\ pending' = [pending EXCEPT ![i] = <<>>]
           ELSE /\ pending' = [pending EXCEPT ![i] = Tail(@)]
                /\ wpc' = [wpc EXCEPT ![i] = IF Tail(pending[i]) = <<>> THEN "scan" ELSE "write"]
                /\ UNCHANGED <<wstatus, openFiles>>
    /\ UNCHANGED <<sem, wg, pos, decodeErr, evaluated, proc>>
    /\ WorkerFrame

\* A release placed after the body instead of in a deferred call.
ReleaseOnReturnOnly(status) == IF status = "aborted_error" THEN 0 ELSE 1

\* defer func() { sem.Release(1); ... }(): slots given back on exit.
ReleaseOnExit(status) == 1

\* A worker without recover(): a panic ends the process.
NoRecover(status) == IF status = "aborted_error" THEN "crashed" ELSE "running"

\* if pv := recover(); pv != nil { log }: the process goes on.
WorkerBoundary(status) == "running"

WorkerRelease(i) ==
    /\ Running /\ wpc[i] = "release"
    /\ sem' = sem - ReleaseOnExit(wstatus[i])
    /\ proc' = WorkerBoundary(wstatus[i])
    /\ wpc' = [wpc EXCEPT ![i] = "done"]
    /\ UNCHANGED <<wg, pos, pending, wstatus, decodeErr, openFiles, out, evaluated, faults>>
    /\ Quiet
    /\ WorkerFrame

\* wg.Done() (deferred by wg.Go): the decrement.  The worker that brings the
\* counter to zero with waiters registered goes on to wake them.
WorkerDone(i) ==
    /\ Running /\ wpc[i] = "done"
    /\ wg' = [wg EXCEPT !.v = @ - 1]
    /\ wpc' = [wpc EXCEPT ![i] = IF wg.v - 1 > 0 \/ wg.w = 0 THEN "term" ELSE "wake"]
    /\ UNCHANGED <<sem, pos, pending, wstatus, decodeErr, openFiles, out, evaluated, faults, proc>>
    /\ Quiet
    /\ WorkerFrame

\* wg.Done(), second half: the state is reset and every waiter released.
WorkerWake(i) ==
    /\ Running /\ wpc[i] = "wake"
    /\ IF wg.v # 0
       THEN /\ Crash
            /\ UNCHANGED <<wg, wpc, pc, waiterpc>>
       ELSE /\ wg' = [v |-> 0, w |-> 0]
            /\ wpc' = [wpc EXCEPT ![i] = "term"]
            /\ pc' = IF pc = "wait_blocked" THEN "wait_woken" ELSE pc
            /\ waiterpc' = IF waiterpc = "blocked" THEN "woken" ELSE waiterpc
            /\ UNCHANGED proc
    /\ UNCHANGED <<config, inShutdown, sem, f, idx, result, ValuesRegex, pos, pending, wstatus,
                   decodeErr, openFiles, out, evaluated, startedShut, warned, faults, sdpc,
                   sdResult, exitResult>>
    /\ UNCHANGED <<serveShut, started, pas>>

\* ---------------------------------------------------------------- shutdown

\* The signal arrives and Shutdown is called: the flag is stored, the
\* onShutdown callbacks (none is ever registered) are started and the
\* goroutine that waits on p.wg is started.
ShutdownStore ==
    /\ Running /\ sdpc = "idle"
    /\ inShutdown' = TRUE
    /\ waiterpc' = "wait"
    /\ sdpc' = "select"
    /\ UNCHANGED <<config, sem, wg, mainv, workv, sdResult, proc, exitResult>>

\* p.wg.Wait() in Shutdown's goroutine: on a zero counter it returns and
\* done is closed, else it registers as a waiter.
WaiterWait ==
    /\ Running /\ waiterpc = "wait"
    /\ IF wg.v = 0
       THEN waiterpc' = "closed" /\ UNCHANGED wg
       ELSE waiterpc' = "blocked" /\ wg' = [wg EXCEPT !.w = @ + 1]
    /\ UNCHANGED <<config, inShutdown, sem, mainv, workv, sdpc, sdResult, proc, exitResult>>

\* The woken Wait panics when the WaitGroup was reused before it returned.
WaiterWoken ==
    /\ Running /\ waiterpc = "woken"
    /\ IF wg.v # 0 \/ wg.w # 0
       THEN Crash /\ UNCHANGED waiterpc
       ELSE waiterpc' = "closed" /\ UNCHANGED proc
    /\ UNCHANGED <<config, inShutdown, sem, wg, mainv, workv, sdpc, sdResult, exitResult>>

\* A Shutdown that clears the flag when it returns.
ClearOnReturn(flag) == FALSE

\* Shutdown's select and return do not write the flag; the store at its
\* first statement is the only write.
FlagOnReturn(flag) == flag

\* select: case <-done: return nil
ShutdownDone ==
    /\ Running /\ sdpc = "select" /\ waiterpc = "closed"
    /\ sdResult' = "nil"
    /\ sdpc' = "send"
    /\ inShutdown' = FlagOnReturn(inShutdown)
    /\ UNCHANGED <<config, sem, wg, mainv, workv, waiterpc, proc, exitResult>>

\* select: case <-ctx.Done(): return ctx.Err()
ShutdownDeadline ==
    /\ Running /\ sdpc = "select"
    /\ sdResult' = "deadline"
    /\ sdpc' = "send"
    /\ inShutdown' = FlagOnReturn(inShutdown)
    /\ UNCHANGED <<config, sem, wg, mainv, workv, waiterpc, proc, exitResult>>

\* ---------------------------------------------------------------- system

Next ==
    \/ PASEntry
    \/ PASWalk
    \/ ServeAcquire
    \/ ServeGo
    \/ ServeWait
    \/ ServeWoken
    \/ ServeFinal
    \/ CallerReturn
    \/ CallerRecv
    \/ \E i \in Workers : WorkerStart(i)
    \/ \E i \in Workers : WorkerLine(i)
    \/ \E i \in Workers : WorkerWrite(i)
    \/ \E i \in Workers : WorkerRelease(i)
    \/ \E i \in Workers : WorkerDone(i)
    \/ \E i \in Workers : WorkerWake(i)
    \/ ShutdownStore
    \/ WaiterWait
    \/ WaiterWoken
    \/ ShutdownDone
    \/ ShutdownDeadline

Spec == Init /\ [][Next]_vars

\* ---------------------------------------------------------------- fairness

\* The steps of the main goroutine (serve, ProcessAndServe, Serve).
MainStep ==
    \/ PASEntry \/ PASWalk \/ ServeAcquire \/ ServeGo \/ ServeWait \/ ServeWoken
    \/ ServeFinal \/ CallerReturn \/ CallerRecv

\* The steps of the worker goroutine of file i.
WorkerStep(i) ==
    /\ i \in Workers
    /\ \/ WorkerStart(i) \/ WorkerLine(i) \/ WorkerWrite(i)
       \/ WorkerRelease(i) \/ WorkerDone(i) \/ WorkerWake(i)

\* The steps of Shutdown's goroutine.
WaiterStep == WaiterWait \/ WaiterWoken

\* Shutdown's select: done is closed or the deadline (30 s) passes.
ShutdownReturn == ShutdownDone \/ ShutdownDeadline

\* The Go scheduler runs every goroutine that can take a step, and the
\* deadline of Shutdown's context expires; the signal itself may never come.
Fairness ==
    /\ WF_vars(MainStep)
    /\ \A i \in 1..NumFiles : WF_vars(WorkerStep(i))
    /\ WF_vars(WaiterStep)
    /\ WF_vars(ShutdownReturn)

\* The initial states of SpecLive: the serial runs with environment faults,
\* the concurrent runs without (their fault budget is spent).
InitLive ==
    \E n \in ThreadChoices, d \in {FullDir, OtherDir} :
        InitFrom(d, n, "partial", SpecValues, IF n = 1 THEN 0 ELSE MaxFaults)

SpecLive == InitLive /\ [][Next]_vars /\ Fairness

\* ---------------------------------------------------------------- one line

\* Candidate values and lines of SpecMatch.
MatchCands == Str(MaxStrLen - 1) \ {<<>>}

ValueLists == UNION {[1..k -> MatchCands] : k \in 1..MaxValues}

MatchLines ==
    {EmptyLine, Obj("title", <<"a">>)} \cup {Obj(TheField, s) : s \in Str(MaxStrLen)}

\* A worker that has opened its file and is about to scan its only line, for
\* every match mode, candidate list and line; Serve waits for it.
InitMatch ==
    \E mode \in Modes, values \in ValueLists, line \in MatchLines :
        /\ Threads = 1
        /\ MatchMode = mode
        /\ Values = values
        /\ ValuesRegex = IF mode = "regex"
                         THEN [i \in 1..Len(values) |-> Compile(values[i])] ELSE <<>>
        /\ dir = << [path |-> FilePath(1), lines |-> <<line>>] >>
        /\ inShutdown = FALSE
        /\ sem = 1
        /\ wg = [v |-> 1, w |-> 0]
        /\ pc = "wait"
        /\ f = <<1>>
        /\ idx = 2
        /\ result = "none"
        /\ serveShut = FALSE
        /\ started = <<1>>
        /\ pas = [walked |-> TRUE, files |-> <<1>>, err |-> FALSE, warn |-> FALSE]
        /\ wpc = <<"scan">>
        /\ pos = <<0>>
        /\ pending = << <<>> >>
        /\ wstatus = <<"none">>
        /\ decodeErr = {}
        /\ openFiles = {1}
        /\ out = <<>>
        /\ evaluated = {}
        /\ startedShut = {}
        /\ warned = {}
        /\ faults = 0
        /\ sdpc = "idle"
        /\ waiterpc = "none"
        /\ sdResult = "none"
        /\ proc = "running"
        /\ exitResult = "none"

NextMatch ==
    \/ \E i \in Workers : WorkerLine(i)
    \/ \E i \in Workers : WorkerWrite(i)

SpecMatch == InitMatch /\ [][NextMatch]_vars

\* ---------------------------------------------------------------- claims

\* Workers holding an admission slot: those running between the start of
\* their function and the release, and the one Serve has acquired a slot for
\* and is about to start.
Holders == Cardinality({i \in Workers : Active(i)}) + (IF pc = "go" THEN 1 ELSE 0)

\* The appends worker i has made.
Appends(i) == {k \in DOMAIN out : out[k].file = i}

\* C1: in every reachable state the number of file-workers that have
\* acquired an admission slot and not yet released it is at most Threads.
C1_AtMostN == Holders <= Threads

\* C1 witness: every slot is held and the dispatch loop is blocked on a
\* further file.
C1_Witness ==
    /\ pc = "acquire" /\ idx <= Len(f)
    /\ Cardinality({i \in Workers : Active(i)}) = Threads

\* C2 (as claimed): once the shutdown flag is true the dispatch loop
\* acquires no slot for a further file.
C2_NoAdmissionAfterShutdown ==
    [][inShutdown => ~(pc = "acquire" /\ pc' = "go")]_vars

\* C3: the flag is polled once per line, before the line is matched: every
\* worker appends at most one line after the flag was set, that line is the
\* last one it takes, a worker that saw the flag has no write left to do, and
\* a worker started after the flag was set appends nothing.
C3_CooperativeCancel ==
    /\ \A i \in Workers :
        /\ Cardinality({k \in Appends(i) : out[k].sd}) <= 1
        /\ \A k \in Appends(i) : out[k].sd => pos[i] = out[k].line
        /\ wstatus[i] = "aborted_shutdown" => wpc[i] \notin {"start", "scan", "write"}
    /\ \A i \in startedShut : Appends(i) = {}

\* C3 witness: a worker that was past its poll when the flag was set has
\* appended that line and then stopped at the next poll, before its second line.
C3_Witness ==
    \E i \in Workers :
        /\ wstatus[i] = "aborted_shutdown"
        /\ pos[i] < Len(dir[i].lines)
        /\ \E k \in Appends(i) : out[k].sd /\ out[k].line = pos[i]

\* C4 (as claimed): Shutdown returns nil only when every admitted worker has
\* reached a terminal state: at the step that returns nil no started worker
\* is still running.
C4_NilOnlyWhenAllTerminal ==
    [][(sdpc = "select" /\ sdpc' = "send" /\ sdResult' = "nil")
        => \A i \in Workers : ~Active(i)]_vars

\* C5 (as claimed): a call whose dispatch begins after the shutdown flag is
\* true acquires no slot, starts no worker and opens no input file.
C5_ClosedStartsNoWork ==
    serveShut => (sem = 0 /\ openFiles = {} /\ \A i \in Workers : wpc[i] = "idle")

\* C6: every admitted worker releases its slot exactly once on every kind of
\* exit and only then signals the WaitGroup: the held slots are exactly the
\* workers that have not yet released (never negative, never a terminated
\* worker, none once all have terminated), and the WaitGroup counts exactly
\* the started workers that have not yet signalled.
C6_ReleaseExactlyOnce ==
    /\ sem \in Nat
    /\ sem = Holders
    /\ wg.v = Cardinality({i \in Workers : Active(i) \/ wpc[i] = "done"})
    /\ (pc # "go" /\ \A i \in Workers : wpc[i] \in {"idle", "term"}) => sem = 0

\* C6 witness: one worker ended by a panic, another by itself, both have
\* terminated and no slot is held.
C6_Witness ==
    /\ sem = 0
    /\ \E i, j \in Workers :
        /\ wstatus[i] = "aborted_error" /\ wpc[i] = "term"
        /\ wstatus[j] = "completed" /\ wpc[j] = "term"

\* C7: a file-local failure ends only its worker: it never ends the process
\* (only the WaitGroup misuse under Shutdown does), Serve's result is never
\* that failure, and when no shutdown was requested Serve returns nil after
\* every file of the list got a worker that ran to its end.
C7_FailureIsolated ==
    /\ ~inShutdown => proc # "crashed"
    /\ f # <<>> => result \in {"none", "nil", "closed"}
    /\ (f # <<>> /\ pc \in {"ret", "exit"} /\ result = "nil")
         => \A k \in 1..Len(f) : wpc[f[k]] = "term"
    /\ (f # <<>> /\ pc \in {"ret", "exit"} /\ ~inShutdown) => result = "nil"

\* C7 witness: a worker failed, a sibling admitted after the failure read
\* its file to the end and appended, and Serve returned nil.
C7_Witness ==
    /\ pc = "exit" /\ exitResult = "nil"
    /\ \E i, j \in Workers :
        /\ i < j
        /\ wstatus[i] = "aborted_error"
        /\ wstatus[j] = "completed" /\ pos[j] = Len(dir[j].lines) /\ Appends(j) # {}

\* The candidates that match a field value under the active mode.
MatchSet(fieldVal) ==
    {k \in 1..Len(Values) : Matched(MatchMode, Values, ValuesRegex, k, fieldVal)}

Min(S) == CHOOSE m \in S : \A n \in S : m <= n

\* Line n of file i has been through the loop body (its write included).
Processed(i, n) == n < pos[i] \/ (n = pos[i] /\ wpc[i] # "write")

\* The appends made for line n of file i.
LineAppends(i, n) == {k \in Appends(i) : out[k].line = n}

\* Every append of a line went to the file of the first matching candidate,
\* and no line was appended twice.
FirstMatchOnly ==
    \A i \in Workers : \A n \in 1..pos[i] :
        LET M == MatchSet(GetField(dir[i].lines[n], TheField))
        IN /\ Cardinality(LineAppends(i, n)) <= 1
           /\ \A k \in LineAppends(i, n) :
                /\ M # {}
                /\ out[k].cand = Min(M)
                /\ out[k].name = OutFileName(dir[i].path, Values[Min(M)])

\* C8 (as claimed): a processed line is appended to at most one output
\* file, and when at least one candidate matches it is appended exactly
\* once, to the file of the first matching candidate.
C8_AppendedExactlyOnce ==
    /\ FirstMatchOnly
    /\ \A i \in Workers : \A n \in 1..pos[i] :
        (Processed(i, n) /\ MatchSet(GetField(dir[i].lines[n], TheField)) # {})
            => Cardinality(LineAppends(i, n)) = 1

\* C8 (amended): as claimed, unless opening or writing the output file
\* failed for that line (logged as a warning), in which case the line is in
\* no output file.
C8_FirstMatchUnlessWriteFails ==
    /\ FirstMatchOnly
    /\ \A i \in Workers : \A n \in 1..pos[i] :
        (Processed(i, n) /\ MatchSet(GetField(dir[i].lines[n], TheField)) # {})
            => Cardinality(LineAppends(i, n)) = (IF <<i, n>> \in warned THEN 0 ELSE 1)

\* C8 witness: a line matched by two candidates, of which the first is not
\* the only one, has been appended once.
C8_Witness ==
    \E i \in Workers : \E n \in 1..pos[i] :
        /\ Processed(i, n)
        /\ Cardinality(MatchSet(GetField(dir[i].lines[n], TheField))) >= 2
        /\ Cardinality(LineAppends(i, n)) = 1

\* C9: a line that is empty, or whose configured field is absent or empty,
\* is never evaluated against a candidate and never appended.
C9_EmptyFieldSkipped ==
    \A i \in Workers : \A n \in 1..pos[i] :
        (LineLen(dir[i].lines[n]) = 0 \/ GetField(dir[i].lines[n], TheField) = <<>>)
            => (<<i, n>> \notin evaluated /\ LineAppends(i, n) = {})

\* C9 witness: a non-empty line without the configured field has been through
\* the loop body and the worker has gone on to the next scan.
C9_Witness ==
    \E i \in Workers :
        /\ pos[i] = 1 /\ Processed(i, 1)
        /\ LineLen(dir[i].lines[1]) > 0
        /\ GetField(dir[i].lines[1], TheField) = <<>>
        /\ wstatus[i] = "completed"

\* C10: two lines of one input file that are both in the same output file
\* are there in their order in the input, whatever other workers appended.
C10_SourceOrder ==
    \A k1, k2 \in DOMAIN out :
        (k1 < k2 /\ out[k1].file = out[k2].file /\ out[k1].name = out[k2].name)
            => out[k1].line < out[k2].line

\* C10 witness: two lines of one file are in an output file with a line of
\* another worker appended between them.
C10_Witness ==
    \E k1, k2, k3 \in DOMAIN out :
        /\ k1 < k2 /\ k2 < k3
        /\ out[k1].name = out[k2].name /\ out[k2].name = out[k3].name
        /\ out[k1].file = out[k3].file /\ out[k2].file # out[k1].file

\* C11: the shutdown flag starts false, its only write is the store at the
\* start of Shutdown, which leaves it true, and it never goes from true
\* back to false, whatever the workers and Serve do meanwhile.
C11_FlagMonotonic ==
    /\ ~inShutdown
    /\ [][/\ inShutdown => inShutdown'
          /\ (inShutdown' # inShutdown) => (sdpc = "idle" /\ sdpc' = "select")
          /\ (sdpc = "idle" /\ sdpc' = "select") => inShutdown']_vars

\* C11 witness: Shutdown has returned, a worker started after the store has
\* run to its end, and the flag is still true.
C11_Witness ==
    /\ inShutdown /\ sdpc \in {"send", "sent"}
    /\ \E i \in startedShut : wpc[i] = "term"

\* A sequence without a repeated element.
NoDup(seq) == \A a, b \in DOMAIN seq : a # b => seq[a] # seq[b]

\* Serve has left its dispatch loop.
LoopDone ==
    \/ pc \in {"wait", "wait_blocked", "wait_woken", "final"}
    \/ pc \in {"ret", "recv", "exit"} /\ f # <<>>

\* C12: no file is handed to two workers or started again after its worker
\* ended, the files handed out are the list in its order, a worker exists
\* only for a file handed out, and once the dispatch loop is over every file
\* of the list has got its worker.
C12_OneWorkerPerFile ==
    /\ NoDup(started)
    /\ Len(started) <= Len(f) /\ started = SubSeq(f, 1, Len(started))
    /\ \A i \in Workers : (wpc[i] # "idle") <=> (\E k \in DOMAIN started : started[k] = i)
    /\ LoopDone => started = f

\* C12 witness: without a shutdown a list of two files was served, one worker
\* failed and ended, and each file was started once.
C12_Witness ==
    /\ pc = "exit" /\ ~inShutdown /\ Len(f) >= 2 /\ Len(started) = Len(f)
    /\ \E i \in Workers : wstatus[i] = "aborted_error" /\ wpc[i] = "term"

\* C13: a line whose output file could not be opened or written is in no
\* output file, its worker is not ended by it (it reads its file to the end
\* unless a shutdown or a decode error stops it), and every later line that
\* matches is appended.
C13_WriteFailureNonFatal ==
    \A i \in Workers : \A n \in 1..pos[i] :
        <<i, n>> \in warned =>
            /\ LineAppends(i, n) = {}
            /\ wstatus[i] # "aborted_error"
            /\ (wstatus[i] = "none" /\ n = pos[i]) => wpc[i] \in {"scan", "write"}
            /\ (wstatus[i] = "completed" /\ i \notin decodeErr) => pos[i] = Len(dir[i].lines)
            /\ \A m \in (n + 1)..pos[i] :
                (/\ Processed(i, m)
                 /\ MatchSet(GetField(dir[i].lines[m], TheField)) # {}
                 /\ <<i, m>> \notin warned)
                    => Cardinality(LineAppends(i, m)) = 1

\* C13 witness: the write of a file's first line failed and its second line
\* was appended.
C13_Witness ==
    \E i \in Workers :
        /\ <<i, 1>> \in warned
        /\ LineAppends(i, 2) # {}
        /\ wstatus[i] = "completed"

\* No slot held, no worker started, no input file open, no output written.
NoWork ==
    /\ sem = 0 /\ started = <<>> /\ openFiles = {} /\ out = <<>>
    /\ \A i \in Workers : wpc[i] = "idle"

\* C14: when the walk returned an error, ProcessAndServe returns it, Serve
\* is not called with the files found so far and no work is started; when
\* the walk found no eligible file, ProcessAndServe logs the warning and
\* returns nil and no work is started; the caller returns either result.
C14_PreStartNoWork ==
    /\ (pas.walked /\ pas.err) => (result = "walkerr" /\ f = <<>> /\ NoWork)
    /\ (pas.walked /\ ~pas.err /\ pas.files = <<>>)
          => (result = "nil" /\ pas.warn /\ f = <<>> /\ NoWork)
    /\ pas.warn => (~pas.err /\ pas.files = <<>>)
    /\ (pc = "exit" /\ pas.walked /\ (pas.err \/ pas.files = <<>>)) => exitResult = result

\* C14 witness: the walk failed after it had found a file, and the caller
\* has returned the error.
C14_Witness ==
    /\ pas.err /\ pas.files # <<>>
    /\ pc = "exit" /\ exitResult = "walkerr"

\* C15 (as claimed): a worker whose line sequence ended on a decode error
\* ends as aborted by error, never as completed.
C15_DecodeFaultIsError ==
    \A i \in decodeErr : wstatus[i] = "aborted_error"

\* C16 (as claimed): once Shutdown has returned nil no worker is running and
\* from then on Serve acquires no slot and starts no worker.
C16_QuiescentAfterShutdown ==
    [][sdResult = "nil" =>
          /\ \A i \in Workers : ~Active(i)
          /\ ~(pc = "acquire" /\ pc' = "go")
          /\ \A i \in Workers : wpc[i] = "idle" => wpc'[i] = "idle"]_vars

\* ProcessAndServe has returned to the caller.
Returned == pc \in {"ret", "recv", "exit"}

\* C17 (as claimed): under fair scheduling Serve returns, every worker it
\* started having signalled its end, with or without a Shutdown call.
C17_ServeTerminates ==
    <>(Returned /\ \A i \in Workers : wpc[i] \in {"idle", "wake", "term"})

\* Every worker Serve started has signalled the WaitGroup (wg.Done).
AllSignalled == \A k \in DOMAIN started : wpc[started[k]] \in {"wake", "term"}

\* C18: Serve is past its Wait only when every file of the list was started
\* and every worker has signalled its end, and the step that returns takes
\* its result from the flag at that moment: closed when the flag is true,
\* nil when it is false.
C18_ResultByFlagAfterWorkers ==
    [][/\ (pc' = "final" \/ (Returned' /\ f' # <<>>)) => (started' = f' /\ AllSignalled')
       /\ (pc = "final" /\ pc' = "ret")
             => result' = (IF inShutdown THEN "closed" ELSE "nil")]_vars

\* C18 witness: every file was read to its end and nothing was started or
\* cut short under shutdown, yet Serve returned the closed error because the
\* flag was set before its final check.
C18_Witness ==
    /\ pc = "ret" /\ result = "closed" /\ f # <<>>
    /\ startedShut = {} /\ decodeErr = {}
    /\ \A k \in DOMAIN f :
        wstatus[f[k]] = "completed" /\ pos[f[k]] = Len(dir[f[k]].lines)

\* C19: the caller returns ProcessAndServe's result at once, without a
\* receive, unless it is the closed error; then Shutdown was called, the
\* caller receives its one result (nil or the deadline error) and returns
\* it, and the receive always comes about.
C19_CallerProtocol ==
    /\ [][/\ (pc' = "exit" /\ result' = "closed")
               => /\ sdpc' = "sent" /\ exitResult' = sdResult'
                  /\ exitResult' \in {"nil", "deadline"}
          /\ (pc' = "exit" /\ result' # "closed") => (exitResult' = result' /\ sdpc' # "sent")
          /\ pc' = "recv" => (result' = "closed" /\ sdpc' # "idle")
          /\ sdpc = "sent" => sdpc' = "sent"]_vars
    /\ (pc = "recv") ~> (pc = "exit")

\* C19 witness: Serve returned the closed error while Shutdown was still
\* waiting, the deadline passed, and the caller received and returned the
\* deadline error.
C19_Witness ==
    /\ pc = "exit" /\ result = "closed"
    /\ sdpc = "sent" /\ exitResult = "deadline"

\* A worker's input file is open only while it holds its slot, the slots
\* held are those of the workers that have not yet released, and the
\* WaitGroup counts the workers that have not yet signalled.
CloseReleaseSignalOrder ==
    /\ \A i \in openFiles : wpc[i] \in {"scan", "write"}
    /\ sem = Holders
    /\ wg.v = Cardinality({i \in Workers : Active(i) \/ wpc[i] = "done"})

\* C20 (as claimed): close comes before release and release before the
\* signal, so at most Threads input files are open and at most Threads
\* workers are started and not yet signalled.
C20_OpenAndUnsignalledAtMostN ==
    /\ CloseReleaseSignalOrder
    /\ Cardinality(openFiles) <= Threads
    /\ wg.v <= Threads

\* C20 (amended): as claimed for the order and the open files; the workers
\* started and not yet signalled are at most Threads plus those that have
\* released their slot and not yet signalled.
C20_OpenAtMostN ==
    /\ CloseReleaseSignalOrder
    /\ Cardinality(openFiles) <= Threads
    /\ wg.v <= Threads + Cardinality({i \in Workers : wpc[i] = "done"})

\* C20 witness: every slot's worker has its input open while a further
\* worker has released and not yet signalled.
C20_Witness ==
    /\ Cardinality(openFiles) = Threads
    /\ wg.v > Threads

====
